---------------------------- MODULE Spec2Model ----------------------------
(***************************************************************************)
(* Model of docs/backend/function.go: the HTTP Cloud Function              *)
(* CORSEnabledFunctionAuth, its helpers jsonResponse, checkRecaptchaToken  *)
(* and addRecord, and the package-level configuration set by init().       *)
(*                                                                         *)
(* Each in-flight request is a process with its own locals (t, data, the   *)
(* ResponseWriter w); the package variables, the bucket and the wall clock *)
(* are shared.  A handler is cut into steps at the points where it blocks  *)
(* on I/O (body read, verification call, storage write), so that requests  *)
(* interleave there as goroutines do.                                      *)
(***************************************************************************)
EXTENDS Integers, Sequences, FiniteSets, TLC

\* ------------------------------------------------------------------ bounds
NumRequests == 2        \* simultaneous requests
MaxTime == 1            \* minutes the wall clock may advance

\* --------------------------------------------------------- program constants
LIMIT == 32768
StatusOK == 200
StatusNoContent == 204
StatusBadRequest == 400
StatusInternalServerError == 500

Requests == 1..NumRequests

\* ------------------------------------------------------------------ inputs
PrivateKeys == {"", "secret-key"}
BypassValues == {"", "letmein"}
ForwardedFor == {"203.0.113.7"}

SmallSize == 64         \* size of a body that fits under LIMIT

\* A request body: either the transfer aborts, or `size` bytes arrive that are
\* a JSON document of the serverRequest shape or something else.  answers is
\* a json.RawMessage as a sequence of JSON tokens; <<>> is the nil RawMessage
\* left by a document without an "answers" member.
AbortedBody ==
    [aborted |-> TRUE, syntax |-> "garbage", size |-> 0,
     captcha_token |-> "", id |-> "", answers |-> <<>>]
GarbageBody ==
    [aborted |-> FALSE, syntax |-> "garbage", size |-> SmallSize,
     captcha_token |-> "", id |-> "", answers |-> <<>>]
JSONBody(sz, tk, i, a) ==
    [aborted |-> FALSE, syntax |-> "json", size |-> sz,
     captcha_token |-> tk, id |-> i, answers |-> a]
OversizeBody == JSONBody(LIMIT + 1, "letmein", "user-1", <<>>)
Submissions ==
    {JSONBody(SmallSize, "", "user-1", <<"{", " ", "\"q1\"", ":", " ", "\"yes\"", "}">>),
     JSONBody(SmallSize, "letmein", "", <<>>)}
Bodies == {AbortedBody, GarbageBody, OversizeBody} \cup Submissions

\* The requests that arrive: method, body and X-Forwarded-For header.
Arrivals ==
    [method : {"POST"}, body : Bodies, xff : ForwardedFor]
    \cup [method : {"OPTIONS"}, body : {GarbageBody} \cup Submissions, xff : ForwardedFor]
    \cup [method : {"GET"}, body : {GarbageBody}, xff : ForwardedFor]

\* Underlying error texts of the external calls.
PostErrors == {"dial tcp: i/o timeout"}
BodyReadErrors == {"unexpected EOF"}
JSONErrors == {"invalid character '<'"}
WriteErrors == {"context deadline exceeded"}

VARIABLES
    recaptchaPrivateKey, recaptchaBypass, bucketName, ctx,  \* package variables
    objects,            \* contents of the bucket
    clock,              \* minutes since 2020/03/28 00:00
    pc, req, data, t, verdict, w,   \* per request: position and locals
    jsonCalls, recaptchaCalls, addCalls    \* per request: calls made so far

config == <<recaptchaPrivateKey, recaptchaBypass, bucketName, ctx>>
locals == <<pc, req, data, t, verdict, w>>
calls == <<jsonCalls, recaptchaCalls, addCalls>>
vars == <<config, objects, clock, locals, calls>>

\* ------------------------------------------------------------ zero values
NoRequest == [method |-> "", body |-> AbortedBody, xff |-> ""]
NoData == [read |-> 0, of |-> AbortedBody]
ZeroServerRequest == [ReCaptchaToken |-> "", ID |-> "", Answers |-> <<>>]
ZeroRecaptchaResponse == [Success |-> FALSE]
NoVerdict == [returned |-> FALSE, err |-> "", r |-> ZeroRecaptchaResponse]
NewResponseWriter ==
    [wroteHeader |-> FALSE, status |-> 0, header |-> {}, sent |-> {}, body |-> <<>>]

\* ------------------------------------------------------ http.ResponseWriter
HeaderSet(h, k, v) == {p \in h : p[1] # k} \cup {<<k, v>>}

SetHeader(wr, k, v) == [wr EXCEPT !.header = HeaderSet(@, k, v)]

\* The first WriteHeader sends the status line and the headers set so far;
\* a later one is superfluous and ignored.
WriteHeader(wr, c) ==
    IF wr.wroteHeader THEN wr
    ELSE [wr EXCEPT !.wroteHeader = TRUE, !.status = c, !.sent = wr.header]

Write(wr, s) ==
    LET h == WriteHeader(wr, StatusOK)
    IN [h EXCEPT !.body = Append(@, s)]

\* --------------------------------------------------------------- encoding
\* json.Marshal of a serverResponse (no character of the messages used here
\* needs escaping).
MarshalResponse(d) ==
    "{\"status\":\"" \o d.Status \o "\",\"message\":\"" \o d.Message \o "\"}"

serverResponse(s, m) == [Status |-> s, Message |-> m]

IsSpace(tok) == tok \in {" ", "\t", "\n", "\r"}

\* json.Marshal of a json.RawMessage: "null" for nil, else the message with
\* insignificant whitespace removed.
MarshalRaw(m) ==
    IF m = <<>> THEN <<"null">> ELSE SelectSeq(m, LAMBDA tok : ~IsSpace(tok))

Digit == <<"0", "1", "2", "3", "4", "5", "6", "7", "8", "9">>
TwoDigits(n) == Digit[(n \div 10) + 1] \o Digit[(n % 10) + 1]

\* time.Now().Format("2006/01/02/15/04/") within the modelled day.
Format(now) ==
    "2020/03/28/" \o TwoDigits((now \div 60) % 24) \o "/" \o TwoDigits(now % 60) \o "/"


\* ----------------------------------------------------------- jsonResponse
\* json.Marshal cannot fail on a serverResponse (two strings), so the
\* http.Error branch is never taken.
jsonResponse(wr, c, d) ==
    LET dj == MarshalResponse(d)
        h == SetHeader(wr, "Content-Type", "application/json")
    IN Write(WriteHeader(h, c), dj)

\* What a request's handler does when it calls jsonResponse(w, c, d).
Respond(r, c, d) ==
    /\ w' = [w EXCEPT ![r] = jsonResponse(w[r], c, d)]
    /\ jsonCalls' = [jsonCalls EXCEPT ![r] = Append(@, [c |-> c, d |-> d])]

\* ------------------------------------------------------------ body decoding
Min(a, b) == IF a < b THEN a ELSE b

\* ioutil.ReadAll(io.LimitReader(r.Body, LIMIT)): at most LIMIT bytes, the
\* excess dropped silently.
ReadAllLimited(body) ==
    [err |-> body.aborted, data |-> [read |-> Min(body.size, LIMIT), of |-> body]]

\* Mutant of Unmarshal: the decode error is dropped.
UnmarshalLenient(d) ==
    IF d.of.syntax = "json" /\ d.read = d.of.size
    THEN [err |-> FALSE,
          t |-> [ReCaptchaToken |-> d.of.captcha_token, ID |-> d.of.id,
                 Answers |-> d.of.answers]]
    ELSE [err |-> FALSE, t |-> ZeroServerRequest]

\* json.Unmarshal(data, &t): succeeds on a whole JSON document of the
\* serverRequest shape; a document cut short by the limit is not one.
Unmarshal(d) ==
    IF d.of.syntax = "json" /\ d.read = d.of.size
    THEN [err |-> FALSE,
          t |-> [ReCaptchaToken |-> d.of.captcha_token, ID |-> d.of.id,
                 Answers |-> d.of.answers]]
    ELSE [err |-> TRUE, t |-> ZeroServerRequest]

\* Mutant of RecaptchaRequired: the test for an unset bypass value is missing.
RecaptchaRequiredNoUnsetTest(key, bypass, token) ==
    key # "" /\ token # bypass

\* The condition guarding the reCaptcha check.
RecaptchaRequired(key, bypass, token) ==
    key # "" /\ (bypass = "" \/ token # bypass)

\* Mutant of StorageKey: the id is left out of the object name.
StorageKeyNoId(now, id) == Format(now)

\* The object name the submission is stored under.
StorageKey(now, id) == Format(now) \o id

\* Mutant of AddRecordCtx: addRecord assigns its derived context to the
\* package variable, and cancels it on return.
AddRecordCtxShared(c) == "Canceled"

\* The context addRecord leaves in the package variable ctx: its own ctx is a
\* shadowing local, so the package variable is untouched.
AddRecordCtx(c) == c

\* bucket.Object(id).NewWriter(ctx), io.Copy, Close: the object replaces any
\* object of the same name.
PutObject(objs, name, payload) ==
    {o \in objs : o.name # name} \cup {[name |-> name, data |-> payload]}

\* ------------------------------------------------------------------- Init
Init ==
    /\ recaptchaPrivateKey \in PrivateKeys
    /\ recaptchaBypass \in BypassValues
    /\ bucketName = "answers"
    /\ ctx = "Background"
    /\ objects = {}
    /\ clock = 0
    /\ pc = [r \in Requests |-> "idle"]
    /\ req = [r \in Requests |-> NoRequest]
    /\ data = [r \in Requests |-> NoData]
    /\ t = [r \in Requests |-> ZeroServerRequest]
    /\ verdict = [r \in Requests |-> NoVerdict]
    /\ w = [r \in Requests |-> NewResponseWriter]
    /\ jsonCalls = [r \in Requests |-> <<>>]
    /\ recaptchaCalls = [r \in Requests |-> <<>>]
    /\ addCalls = [r \in Requests |-> <<>>]

\* ---------------------------------------------------------------- actions
\* The wall clock advances.
Tick ==
    /\ clock < MaxTime
    /\ clock' = clock + 1
    /\ UNCHANGED <<config, objects, locals, calls>>

\* Mutant of PreflightResponse: the status is never written.
PreflightResponseNoStatus(wr) ==
    LET h1 == SetHeader(wr, "Access-Control-Allow-Credentials", "true")
        h2 == SetHeader(h1, "Access-Control-Allow-Headers", "Authorization")
        h3 == SetHeader(h2, "Access-Control-Allow-Methods", "POST")
        h4 == SetHeader(h3, "Access-Control-Allow-Origin", "https://screencovid.com")
    IN SetHeader(h4, "Access-Control-Max-Age", "3600")

\* The preflight headers and status written for an OPTIONS request.
PreflightResponse(wr) ==
    LET h1 == SetHeader(wr, "Access-Control-Allow-Credentials", "true")
        h2 == SetHeader(h1, "Access-Control-Allow-Headers", "Authorization")
        h3 == SetHeader(h2, "Access-Control-Allow-Methods", "POST")
        h4 == SetHeader(h3, "Access-Control-Allow-Origin", "https://screencovid.com")
        h5 == SetHeader(h4, "Access-Control-Max-Age", "3600")
    IN WriteHeader(h5, StatusNoContent)

\* The CORS headers set for the main request.
MainHeaders(wr) ==
    SetHeader(SetHeader(wr, "Access-Control-Allow-Credentials", "true"),
              "Access-Control-Allow-Origin", "https://screencovid.com")

\* A request arrives and the handler starts: the method test.
Enter(r) ==
    /\ pc[r] = "idle"
    /\ \E a \in Arrivals :
        /\ req' = [req EXCEPT ![r] = a]
        /\ IF a.method = "OPTIONS"
           THEN /\ w' = [w EXCEPT ![r] = PreflightResponse(w[r])]
                /\ pc' = [pc EXCEPT ![r] = "done"]
           ELSE /\ w' = [w EXCEPT ![r] = MainHeaders(w[r])]
                /\ pc' = [pc EXCEPT ![r] = "read"]
    /\ UNCHANGED <<config, objects, clock, data, t, verdict, calls>>

\* The body is read, under the size limit.
ReadBody(r) ==
    /\ pc[r] = "read"
    /\ LET got == ReadAllLimited(req[r].body)
       IN IF got.err
          THEN /\ Respond(r, StatusBadRequest, serverResponse("error", "must supply a payload"))
               /\ pc' = [pc EXCEPT ![r] = "done"]
               /\ UNCHANGED data
          ELSE /\ data' = [data EXCEPT ![r] = got.data]
               /\ pc' = [pc EXCEPT ![r] = "decode"]
               /\ UNCHANGED <<w, jsonCalls>>
    /\ UNCHANGED <<config, objects, clock, req, t, verdict, recaptchaCalls, addCalls>>

\* The bytes read are decoded into t.
Decode(r) ==
    /\ pc[r] = "decode"
    /\ LET got == Unmarshal(data[r])
       IN IF got.err
          THEN /\ Respond(r, StatusBadRequest, serverResponse("error", "error parsing input"))
               /\ pc' = [pc EXCEPT ![r] = "done"]
               /\ UNCHANGED t
          ELSE /\ t' = [t EXCEPT ![r] = got.t]
               /\ pc' = [pc EXCEPT ![r] = "check"]
               /\ UNCHANGED <<w, jsonCalls>>
    /\ UNCHANGED <<config, objects, clock, req, data, verdict, recaptchaCalls, addCalls>>

\* The reCaptcha guard; when it holds, checkRecaptchaToken posts its form
\* (token and forwarded address in the order the handler passes them).
CheckRecaptcha(r) ==
    /\ pc[r] = "check"
    /\ IF RecaptchaRequired(recaptchaPrivateKey, recaptchaBypass, t[r].ReCaptchaToken)
       THEN /\ recaptchaCalls' = [recaptchaCalls EXCEPT ![r] =
                    Append(@, [secret |-> recaptchaPrivateKey,
                               remoteip |-> t[r].ReCaptchaToken,
                               response |-> req[r].xff])]
            /\ pc' = [pc EXCEPT ![r] = "verify"]
       ELSE /\ pc' = [pc EXCEPT ![r] = "store"]
            /\ UNCHANGED recaptchaCalls
    /\ UNCHANGED <<config, objects, clock, req, data, t, verdict, w, jsonCalls, addCalls>>

\* What checkRecaptchaToken can return.
RecaptchaOutcomes ==
    {[returned |-> TRUE, err |-> "Post to recaptcha error " \o e,
      r |-> ZeroRecaptchaResponse] : e \in PostErrors}
    \cup {[returned |-> TRUE, err |-> "Read error: could not read body " \o e,
           r |-> ZeroRecaptchaResponse] : e \in BodyReadErrors}
    \cup {[returned |-> TRUE, err |-> "Read error: got invalid JSON " \o e,
           r |-> ZeroRecaptchaResponse] : e \in JSONErrors}
    \cup {[returned |-> TRUE, err |-> "", r |-> [Success |-> s]] : s \in BOOLEAN}

\* Mutant of OnRecaptchaResult: the return after a failed call is missing.
OnRecaptchaResultNoStop(r, v) ==
    /\ IF v.err # ""
       THEN Respond(r, StatusInternalServerError, serverResponse("error", v.err))
       ELSE IF ~v.r.Success
            THEN Respond(r, StatusBadRequest,
                         serverResponse("error", "recaptcha thinks your are a bot"))
            ELSE UNCHANGED <<w, jsonCalls>>
    /\ pc' = [pc EXCEPT ![r] = "store"]

\* Mutant of OnRecaptchaResult: the handler returns after the "bot" response.
OnRecaptchaResultStopOnDenied(r, v) ==
    IF v.err # ""
    THEN /\ Respond(r, StatusInternalServerError, serverResponse("error", v.err))
         /\ pc' = [pc EXCEPT ![r] = "done"]
    ELSE IF ~v.r.Success
         THEN /\ Respond(r, StatusBadRequest,
                         serverResponse("error", "recaptcha thinks your are a bot"))
              /\ pc' = [pc EXCEPT ![r] = "done"]
         ELSE /\ UNCHANGED <<w, jsonCalls>>
              /\ pc' = [pc EXCEPT ![r] = "store"]

\* What the handler does with checkRecaptchaToken's result: an error ends the
\* request with 500; success = false writes the 400 envelope and goes on.
OnRecaptchaResult(r, v) ==
    IF v.err # ""
    THEN /\ Respond(r, StatusInternalServerError, serverResponse("error", v.err))
         /\ pc' = [pc EXCEPT ![r] = "done"]
    ELSE /\ IF ~v.r.Success
            THEN Respond(r, StatusBadRequest,
                         serverResponse("error", "recaptcha thinks your are a bot"))
            ELSE UNCHANGED <<w, jsonCalls>>
         /\ pc' = [pc EXCEPT ![r] = "store"]

\* checkRecaptchaToken returns and the handler acts on the result.
RecaptchaReturn(r) ==
    /\ pc[r] = "verify"
    /\ \E v \in RecaptchaOutcomes :
        /\ verdict' = [verdict EXCEPT ![r] = v]
        /\ OnRecaptchaResult(r, v)
    /\ UNCHANGED <<config, objects, clock, req, data, t, recaptchaCalls, addCalls>>

\* What addRecord can return under context c: nil, or the error of the copy
\* or of the close; under a context already cancelled the write cannot succeed.
AddRecordOutcomes(c) ==
    IF c = "Background"
    THEN {[err |-> "", committed |-> TRUE]}
         \cup {[err |-> e, committed |-> FALSE] : e \in WriteErrors}
    ELSE {[err |-> "context canceled", committed |-> FALSE]}

\* Mutant of OnAddRecordResult: a failed write is tried again.
OnAddRecordResultRetry(r, err) ==
    IF err # ""
    THEN /\ pc' = [pc EXCEPT ![r] = "store"]
         /\ UNCHANGED <<w, jsonCalls>>
    ELSE /\ Respond(r, StatusOK, serverResponse("ok", "thank you"))
         /\ pc' = [pc EXCEPT ![r] = "done"]

\* What the handler does with addRecord's result: the 500 envelope with the
\* error text, or the 200 "thank you"; either way it returns.
OnAddRecordResult(r, err) ==
    /\ IF err # ""
       THEN Respond(r, StatusInternalServerError,
                    serverResponse("error", "failed to upload data " \o err))
       ELSE Respond(r, StatusOK, serverResponse("ok", "thank you"))
    /\ pc' = [pc EXCEPT ![r] = "done"]

\* The answers are stored and the final response written.
AddRecord(r) ==
    /\ pc[r] = "store"
    /\ LET answers == MarshalRaw(t[r].Answers)
           currentTime == clock
           key == StorageKey(currentTime, t[r].ID)
       IN \E o \in AddRecordOutcomes(ctx) :
            /\ addCalls' = [addCalls EXCEPT ![r] =
                    Append(@, [id |-> key, payload |-> answers, err |-> o.err,
                               at |-> currentTime])]
            /\ objects' = IF o.committed THEN PutObject(objects, key, answers) ELSE objects
            /\ ctx' = AddRecordCtx(ctx)
            /\ OnAddRecordResult(r, o.err)
    /\ UNCHANGED <<recaptchaPrivateKey, recaptchaBypass, bucketName, clock,
                   req, data, t, verdict, recaptchaCalls>>

Next ==
    \/ Tick
    \/ \E r \in Requests : Enter(r)
    \/ \E r \in Requests : ReadBody(r)
    \/ \E r \in Requests : Decode(r)
    \/ \E r \in Requests : CheckRecaptcha(r)
    \/ \E r \in Requests : RecaptchaReturn(r)
    \/ \E r \in Requests : AddRecord(r)

Spec == Init /\ [][Next]_vars

\* ------------------------------------------------------ claim vocabulary
\* The request went past the preflight test.
MainRequest(r) == pc[r] # "idle" /\ req[r].method # "OPTIONS"

\* The body arrives whole and is a JSON document of the serverRequest shape
\* that fits under the limit.
Decodable(b) == ~b.aborted /\ b.syntax = "json" /\ b.size <= LIMIT

\* The body arrives but what is read of it is no such document.
Malformed(b) == ~b.aborted /\ ~(b.syntax = "json" /\ b.size <= LIMIT)

Envelope(s, m) == MarshalResponse(serverResponse(s, m))

OkEnvelope == Envelope("ok", "thank you")

VerificationFailed(r) == verdict[r].returned /\ verdict[r].err # ""
VerificationDenied(r) == verdict[r].returned /\ verdict[r].err = "" /\ ~verdict[r].r.Success
VerificationPassed(r) == verdict[r].returned /\ verdict[r].err = "" /\ verdict[r].r.Success

\* C1: from request start to handler return jsonResponse is called at most
\* once, and exactly once for a request that is not OPTIONS (never for
\* OPTIONS).
C1_SingleResponseWrite ==
    \A r \in Requests :
        /\ Len(jsonCalls[r]) <= 1
        /\ pc[r] = "done" =>
              Len(jsonCalls[r]) = (IF req[r].method = "OPTIONS" THEN 0 ELSE 1)

\* C2: addRecord is invoked at most once per request (so a failed write is
\* never retried), and exactly once by the time the handler returns when the
\* body decodes and verification was skipped or returned success = true.
C2_OneStorageAttempt ==
    \A r \in Requests :
        /\ Len(addCalls[r]) <= 1
        /\ ( /\ pc[r] = "done"
             /\ MainRequest(r)
             /\ Decodable(req[r].body)
             /\ (recaptchaCalls[r] = <<>> \/ VerificationPassed(r)) )
           => Len(addCalls[r]) = 1

\* C2 witness: a request whose only addRecord call failed has returned.
C2_Witness ==
    \E r \in Requests :
        /\ pc[r] = "done"
        /\ Len(addCalls[r]) = 1
        /\ addCalls[r][1].err # ""
        /\ VerificationPassed(r)

\* C3: whenever addRecord returned an error, the response status is 500, the
\* only envelope written is the error envelope carrying the error text, and
\* no "ok" envelope is written.
C3_StorageFailureIs500 ==
    \A r \in Requests :
        (pc[r] = "done" /\ addCalls[r] # <<>> /\ addCalls[r][1].err # "")
        => /\ w[r].status = StatusInternalServerError
           /\ w[r].body =
                <<Envelope("error", "failed to upload data " \o addCalls[r][1].err)>>
           /\ \A i \in 1..Len(jsonCalls[r]) : jsonCalls[r][i].d.Status # "ok"

\* C4: a request (other than a preflight) whose body is malformed gets 400
\* with the message "error parsing input", whatever the private key and
\* bypass value, and never causes a checkRecaptchaToken or an addRecord call.
C4_MalformedBodyIs400 ==
    \A r \in Requests :
        (MainRequest(r) /\ Malformed(req[r].body))
        => /\ recaptchaCalls[r] = <<>>
           /\ addCalls[r] = <<>>
           /\ pc[r] \in {"read", "decode", "done"}
           /\ pc[r] = "done" =>
                /\ w[r].status = StatusBadRequest
                /\ w[r].body = <<Envelope("error", "error parsing input")>>

\* C4 witness: a malformed body was answered while a private key is set.
C4_Witness ==
    \E r \in Requests :
        /\ MainRequest(r)
        /\ Malformed(req[r].body)
        /\ pc[r] = "done"
        /\ recaptchaPrivateKey # ""
        /\ w[r].status = StatusBadRequest

\* C5: with no private key configured, a decodable submission causes no
\* verification call, and when its storage write succeeds exactly one object
\* was written, named by the minute prefix followed by the submitted id, and
\* the response is 200 with the "ok" envelope.
C5_DisabledVerificationStores ==
    \A r \in Requests :
        (MainRequest(r) /\ Decodable(req[r].body) /\ recaptchaPrivateKey = "")
        => /\ recaptchaCalls[r] = <<>>
           /\ (addCalls[r] # <<>> /\ addCalls[r][1].err = "")
              => /\ Len(addCalls[r]) = 1
                 /\ addCalls[r][1].id = Format(addCalls[r][1].at) \o req[r].body.id
                 /\ \E o \in objects : o.name = addCalls[r][1].id
                 /\ Cardinality(objects) <= Cardinality({q \in Requests : addCalls[q] # <<>>})
                 /\ pc[r] = "done"
                 /\ w[r].status = StatusOK
                 /\ w[r].body = <<OkEnvelope>>

\* C5 witness: such a submission with a non-empty id was stored and answered.
C5_Witness ==
    \E r \in Requests :
        /\ MainRequest(r)
        /\ recaptchaPrivateKey = ""
        /\ req[r].body.id # ""
        /\ pc[r] = "done"
        /\ w[r].status = StatusOK
        /\ objects # {}

\* C6: past the guard, a token equal to a non-empty bypass value means no
\* verification call and the request goes on to its storage write; with a
\* private key set, an empty bypass value or a differing token means the
\* verification call is made.
C6_BypassSkipsVerification ==
    \A r \in Requests :
        (MainRequest(r) /\ Decodable(req[r].body) /\ pc[r] \in {"verify", "store", "done"})
        => /\ (recaptchaBypass # "" /\ req[r].body.captcha_token = recaptchaBypass)
              => /\ recaptchaCalls[r] = <<>>
                 /\ pc[r] \in {"store", "done"}
                 /\ pc[r] = "done" => Len(addCalls[r]) = 1
           /\ ( /\ recaptchaPrivateKey # ""
                /\ (recaptchaBypass = "" \/ req[r].body.captcha_token # recaptchaBypass) )
              => Len(recaptchaCalls[r]) = 1

\* C6 witness: with a private key set, a request carrying the bypass value
\* was stored without a verification call.
C6_Witness ==
    \E r \in Requests :
        /\ recaptchaPrivateKey # ""
        /\ recaptchaBypass # ""
        /\ MainRequest(r)
        /\ req[r].body.captcha_token = recaptchaBypass
        /\ pc[r] = "done"
        /\ recaptchaCalls[r] = <<>>
        /\ Len(addCalls[r]) = 1

\* C7: when the verification call fails, the handler has returned with status
\* 500 and the error text as the message, and made no storage write attempt;
\* and a request that made a verification call attempts a storage write only
\* after that call returned without error.
C7_VerificationErrorStops ==
    \A r \in Requests :
        /\ VerificationFailed(r)
           => /\ pc[r] = "done"
              /\ w[r].status = StatusInternalServerError
              /\ w[r].body = <<Envelope("error", verdict[r].err)>>
              /\ \E e \in PostErrors \cup BodyReadErrors \cup JSONErrors,
                    p \in {"Post to recaptcha error ", "Read error: could not read body ",
                           "Read error: got invalid JSON "} :
                    verdict[r].err = p \o e
              /\ addCalls[r] = <<>>
        /\ (recaptchaCalls[r] # <<>> /\ addCalls[r] # <<>>)
           => (verdict[r].returned /\ verdict[r].err = "")

\* C7 witness: a verification call failed.
C7_Witness ==
    \E r \in Requests : VerificationFailed(r) /\ pc[r] = "done"

\* C8: an OPTIONS request is answered 204 with the preflight CORS headers and
\* an empty body, whatever the configuration and the request content; its
\* body is not read, and no verification call, storage write or JSON envelope
\* is made for it.
C8_PreflightOnly ==
    \A r \in Requests :
        (pc[r] # "idle" /\ req[r].method = "OPTIONS")
        => /\ pc[r] = "done"
           /\ w[r].status = StatusNoContent
           /\ w[r].sent = {<<"Access-Control-Allow-Credentials", "true">>,
                           <<"Access-Control-Allow-Headers", "Authorization">>,
                           <<"Access-Control-Allow-Methods", "POST">>,
                           <<"Access-Control-Allow-Origin", "https://screencovid.com">>,
                           <<"Access-Control-Max-Age", "3600">>}
           /\ w[r].body = <<>>
           /\ data[r] = NoData
           /\ t[r] = ZeroServerRequest
           /\ jsonCalls[r] = <<>>
           /\ recaptchaCalls[r] = <<>>
           /\ addCalls[r] = <<>>

\* C8 witness: an OPTIONS request carrying a decodable submission was
\* answered while a private key is configured.
C8_Witness ==
    \E r \in Requests :
        /\ pc[r] = "done"
        /\ req[r].method = "OPTIONS"
        /\ Decodable(req[r].body)
        /\ recaptchaPrivateKey # ""

\* C9: when verification returns success = false, the 400 envelope "recaptcha
\* thinks your are a bot" is written and the handler still goes on to the
\* storage step: by its return addRecord was invoked exactly once with the
\* submission's key and payload.
C9_DeniedStillStored ==
    \A r \in Requests :
        VerificationDenied(r)
        => /\ jsonCalls[r] # <<>>
           /\ jsonCalls[r][1] =
                [c |-> StatusBadRequest,
                 d |-> serverResponse("error", "recaptcha thinks your are a bot")]
           /\ w[r].status = StatusBadRequest
           /\ w[r].body[1] = Envelope("error", "recaptcha thinks your are a bot")
           /\ pc[r] \in {"store", "done"}
           /\ pc[r] = "done"
              => /\ Len(addCalls[r]) = 1
                 /\ addCalls[r][1].id = Format(addCalls[r][1].at) \o req[r].body.id
                 /\ addCalls[r][1].payload = MarshalRaw(req[r].body.answers)

\* C9 witness: a submission denied by verification is in the bucket.
C9_Witness ==
    \E r \in Requests :
        /\ VerificationDenied(r)
        /\ pc[r] = "done"
        /\ addCalls[r][1].err = ""
        /\ \E o \in objects :
              o.name = addCalls[r][1].id /\ o.data = addCalls[r][1].payload

\* The ResponseWriter after request q is handled with nothing else running,
\* given the verification result v and the addRecord error e ("" for none).
AloneResponse(q, v, e) ==
    IF q.method = "OPTIONS" THEN PreflightResponse(NewResponseWriter)
    ELSE
    LET w0 == MainHeaders(NewResponseWriter)
        got == ReadAllLimited(q.body)
        dec == Unmarshal(got.data)
        checked == RecaptchaRequired(recaptchaPrivateKey, recaptchaBypass,
                                     dec.t.ReCaptchaToken)
        w1 == IF checked /\ ~v.r.Success
              THEN jsonResponse(w0, StatusBadRequest,
                                serverResponse("error", "recaptcha thinks your are a bot"))
              ELSE w0
    IN  IF got.err
        THEN jsonResponse(w0, StatusBadRequest,
                          serverResponse("error", "must supply a payload"))
        ELSE IF dec.err
        THEN jsonResponse(w0, StatusBadRequest,
                          serverResponse("error", "error parsing input"))
        ELSE IF checked /\ v.err # ""
        THEN jsonResponse(w0, StatusInternalServerError, serverResponse("error", v.err))
        ELSE IF e # ""
        THEN jsonResponse(w1, StatusInternalServerError,
                          serverResponse("error", "failed to upload data " \o e))
        ELSE jsonResponse(w1, StatusOK, serverResponse("ok", "thank you"))

\* Whether request q, handled with nothing else running, calls addRecord.
AloneStores(q, v) ==
    /\ q.method # "OPTIONS"
    /\ Decodable(q.body)
    /\ RecaptchaRequired(recaptchaPrivateKey, recaptchaBypass, q.body.captcha_token)
       => v.err = ""

\* A finished request's response and storage write are those of the same
\* request handled alone, under the initial context.
SameAsAlone(r) ==
    LET stores == AloneStores(req[r], verdict[r])
    IN /\ Len(addCalls[r]) = (IF stores THEN 1 ELSE 0)
       /\ stores
          => /\ addCalls[r][1].id = Format(addCalls[r][1].at) \o req[r].body.id
             /\ addCalls[r][1].payload = MarshalRaw(req[r].body.answers)
             /\ addCalls[r][1].err \in {""} \cup WriteErrors
       /\ w[r] = AloneResponse(req[r], verdict[r],
                               IF stores THEN addCalls[r][1].err ELSE "")

\* C10: no step of any request changes the package variables (private key,
\* bypass value, bucket, base context), and under every interleaving each
\* finished request's response and storage write are the same as if it had
\* been handled alone.
C10_ConcurrentRequestsIndependent ==
    /\ [][config' = config]_vars
    /\ [](\A r \in Requests : pc[r] = "done" => SameAsAlone(r))

\* C10 witness: two requests have finished, one of which made its storage
\* write while the other was past its own decoding, and both wrote the same
\* object name.
C10_Witness ==
    \E r1, r2 \in Requests :
        /\ r1 # r2
        /\ pc[r1] = "done" /\ pc[r2] = "done"
        /\ recaptchaCalls[r1] # <<>>
        /\ addCalls[r1] # <<>> /\ addCalls[r2] # <<>>
        /\ addCalls[r1][1].id = addCalls[r2][1].id
        /\ w[r1].status # w[r2].status

=============================================================================
